---- MODULE Spec2Model ----
(***************************************************************************)
(* torch/onnx/_internal/torch_graph.py: graph_op, aten_op, block_op,       *)
(* _new_node and _add_attribute over a native torch Graph / Block.         *)
(*                                                                         *)
(* Python strings are sequences of one-character strings.  Every Python    *)
(* object is a record [tag, a, b]: a graph value (_C.Value) is             *)
(* ["Value", producing node, output index], a tensor is                    *)
(* ["tensor", numel, ndim], the other tags carry a payload in a.           *)
(* The native graph is observed through the nodes it holds and through     *)
(* the sequence of native calls (log) the last operation made on it.       *)
(***************************************************************************)
EXTENDS Integers, Sequences, FiniteSets, TLC

VARIABLES nodes, graph, block, log, result, call,
          onnx_shape_inference, operator_export_type, CAFFE2_ATEN_FALLBACK

vars == <<nodes, graph, block, log, result, call,
          onnx_shape_inference, operator_export_type, CAFFE2_ATEN_FALLBACK>>

(* ------------------------------ bounds --------------------------------- *)
MaxKeyLen == 4
MaxArgs == 2
MaxOutputs == 2

(* --------------------------- Python objects ---------------------------- *)
Obj(tag, a, b) == [tag |-> tag, a |-> a, b |-> b]
None == Obj("None", 0, 0)
Tensor(numel, ndim) == Obj("tensor", numel, ndim)
Value(n, i) == Obj("Value", n, i)
PyStr(s) == Obj("str", s, 0)
\* x is None
IsNone(x) == x.tag = "None"

\* isinstance(x, Iterable): str, list and Tensor define __iter__
IsIterable(x) == x.tag \in {"str", "list", "tensor"}

\* character codes, for the order sorted() puts keys in
Alphabet == <<"a","b","c","d","e","f","g","h","i","j","k","l","m",
              "n","o","p","q","r","s","t","u","v","w","x","y","z">>
Ord(c) ==
    IF c = "\n" THEN 10
    ELSE IF c = ":" THEN 58
    ELSE IF c = "_" THEN 95
    ELSE IF \E j \in 1..Len(Alphabet) : Alphabet[j] = c
         THEN 96 + (CHOOSE j \in 1..Len(Alphabet) : Alphabet[j] = c)
    ELSE 65

\* s < t for Python strings
RECURSIVE StrLess(_, _)
StrLess(s, t) ==
    IF t = <<>> THEN FALSE
    ELSE IF s = <<>> THEN TRUE
    ELSE IF Ord(Head(s)) # Ord(Head(t)) THEN Ord(Head(s)) < Ord(Head(t))
    ELSE StrLess(Tail(s), Tail(t))

\* sorted(kwargs.items()), as the sequence of keys
RECURSIVE SortedKeys(_)
SortedKeys(ks) ==
    IF ks = {} THEN <<>>
    ELSE LET k == CHOOSE x \in ks : \A y \in ks \ {x} : StrLess(x, y)
         IN <<k>> \o SortedKeys(ks \ {k})

(* ------------------------------ _ATTR_PATTERN -------------------------- *)
KindChars == {"i", "f", "s", "t", "g", "z"}

\* where "$" can match: at the end, and before a newline that ends the string
EndPositions(key) ==
    {Len(key)} \cup
    (IF Len(key) > 0 /\ key[Len(key)] = "\n" THEN {Len(key) - 1} ELSE {})

\* <<n, e>>: group 1 is key[1..n] (".+": non-empty, no newline), "_" follows,
\* and the type code runs up to e, which is an end position
AttrMatches(key) ==
    { p \in (1..Len(key)) \X (1..Len(key)) :
        /\ p[2] \in EndPositions(key)
        /\ p[1] + 2 <= p[2]
        /\ \A j \in 1..p[1] : key[j] # "\n"
        /\ key[p[1] + 1] = "_"
        /\ \/ p[2] = p[1] + 2 /\ key[p[2]] \in KindChars
           \/ p[2] = p[1] + 3 /\ key[p[1] + 2] = "t" /\ key[p[2]] = "y" }

\* _ATTR_PATTERN.match(key): m = FALSE is None, else group(1) and group(2);
\* ".+" is greedy, the match with the longest group 1 is the one returned
ATTR_PATTERN(key) ==
    IF AttrMatches(key) = {} THEN [m |-> FALSE, name |-> <<>>, kind |-> <<>>]
    ELSE LET p == CHOOSE q \in AttrMatches(key) :
                      \A r \in AttrMatches(key) : r[1] <= q[1]
         IN [m |-> TRUE,
             name |-> SubSeq(key, 1, p[1]),
             kind |-> SubSeq(key, p[1] + 2, p[2])]

(* ------------------------------ helpers -------------------------------- *)
\* _is_onnx_list without the test for strings
is_onnx_list_str(value) ==
    /\ value.tag # "tensor"
    /\ IsIterable(value)

\* _is_onnx_list
is_onnx_list(value) ==
    /\ value.tag # "str"
    /\ value.tag # "tensor"
    /\ IsIterable(value)

\* _is_caffe2_aten_fallback
is_caffe2_aten_fallback ==
    /\ operator_export_type = "ONNX_ATEN_FALLBACK"
    /\ CAFFE2_ATEN_FALLBACK

(* --------------------------- the native side --------------------------- *)
\* the state an operation runs on: the nodes ever created (a node's id is
\* its index), the graph's and the block's node lists, the native calls made
\* so far, and how deeply graph_op is nested at this point
St(ns, g, b, l, d) ==
    [nodes |-> ns, graph |-> g, block |-> b, log |-> l, depth |-> d]

\* a call, made at nesting depth st.depth
Event(st, ev, n, setter, name, value) ==
    [ev |-> ev, node |-> n, setter |-> setter, name |-> name, value |-> value,
     depth |-> st.depth]
Logged(st, ns, g, b, e) == St(ns, g, b, Append(st.log, e), st.depth)

\* what a function returns (ret) or raises (raised), and the state it leaves
Outcome(st, ret, raised) == [st |-> st, ret |-> ret, raised |-> raised]
Ret(tag, items) == [tag |-> tag, items |-> items]

\* g.create(kind, args, outputs): a new node, not yet in any node list
Create(st, kind, args, nout) ==
    LET id == Len(st.nodes) + 1
    IN Logged(st,
              Append(st.nodes, [kind |-> kind, inputs |-> args, nout |-> nout,
                                attrs |-> <<>>]),
              st.graph, st.block, Event(st, "create", id, <<>>, <<>>, None))

\* getattr(node, f"{kind}_")(name, value)
SetAttr(st, id, kind, name, value) ==
    LET setter == kind \o <<"_">>
        a == [setter |-> setter, name |-> name, value |-> value]
    IN Logged(st, [st.nodes EXCEPT ![id].attrs = Append(@, a)],
              st.graph, st.block, Event(st, "attr", id, setter, name, value))

(* ------------------------------ _add_attribute ------------------------- *)
\* _scalar: x[0] of a tensor whose dimensions all are 1
scalar(x) == Tensor(x.a, x.b - 1)

add_attribute(st, id, key, value, aten) ==
    LET m == ATTR_PATTERN(key) IN
    IF ~m.m THEN Outcome(st, None, "ValueError")
    ELSE
      LET kind == IF is_onnx_list(value) THEN m.kind \o <<"s">> ELSE m.kind IN
      IF aten /\ is_caffe2_aten_fallback /\ value.tag = "tensor"
      THEN IF value.a > 1 THEN Outcome(st, None, "ValueError")
           ELSE IF value.a # 1 THEN Outcome(st, None, "AssertionError")
           ELSE IF value.b = 0 THEN Outcome(st, None, "IndexError")
           ELSE LET v == scalar(value)
                    k == IF v.tag = "float" THEN <<"f">> ELSE <<"i">>
                IN Outcome(SetAttr(st, id, k, m.name, v), None, "")
      ELSE Outcome(SetAttr(st, id, kind, m.name, value), None, "")

(* ------------------------------ opname --------------------------------- *)
\* "::" in opname
HasSep(s) == \E j \in 1..(Len(s) - 1) : s[j] = ":" /\ s[j + 1] = ":"

\* opname.split("::")
RECURSIVE Split(_)
Split(s) ==
    IF ~HasSep(s) THEN <<s>>
    ELSE LET j == CHOOSE x \in 1..(Len(s) - 1) :
                      /\ s[x] = ":" /\ s[x + 1] = ":"
                      /\ \A y \in 1..(x - 1) : ~(s[y] = ":" /\ s[y + 1] = ":")
         IN <<SubSeq(s, 1, j - 1)>> \o Split(SubSeq(s, j + 2, Len(s)))

Sep == <<":", ":">>
str_onnx == <<"o","n","n","x">>
str_aten == <<"a","t","e","n">>
str_inplace == <<"i","n","p","l","a","c","e">>
str_Constant == <<"C","o","n","s","t","a","n","t">>
str_value_z == <<"v","a","l","u","e","_","z">>
str_ATen == <<"A","T","e","n">>
str_operator_s == <<"o","p","e","r","a","t","o","r","_","s">>
str_overload_name_s ==
    <<"o","v","e","r","l","o","a","d","_","n","a","m","e","_","s">>

\* bool(x) of a keyword value
Truthy(x) ==
    IF x.tag \in {"bool", "int", "float"} THEN x.a # 0 ELSE x.tag # "None"

\* a dict with one more item
WithItem(d, k, v) == [x \in DOMAIN d \cup {k} |-> IF x = k THEN v ELSE d[x]]
\* a dict without the keys ks
Without(d, ks) == [x \in DOMAIN d \ ks |-> d[x]]

(* ------------------------------ _new_node ------------------------------ *)
\* for k, v in sorted(kwargs.items()): skip "inplace", _add_attribute
RECURSIVE add_attributes(_, _, _, _, _)
add_attributes(st, id, keys, kwargs, aten) ==
    IF keys = <<>> THEN Outcome(st, None, "")
    ELSE IF Head(keys) = str_inplace
         THEN add_attributes(st, id, Tail(keys), kwargs, aten)
    ELSE LET o == add_attribute(st, id, Head(keys), kwargs[Head(keys)], aten)
         IN IF o.raised # "" THEN o
            ELSE add_attributes(o.st, id, Tail(keys), kwargs, aten)

\* g.insertNode(n)
InsertNode(st, id) ==
    Logged(st, st.nodes, Append(st.graph, id), st.block,
           Event(st, "insertNode", id, <<>>, <<>>, None))

\* _new_node that puts the node into the graph before it sets the attributes
new_node_inserted(st, namespace, op, outputs, args, kwargs) ==
    LET aten == IF str_aten \in DOMAIN kwargs
                THEN Truthy(kwargs[str_aten]) ELSE FALSE
        kw == Without(kwargs, {str_aten})
        st1 == Create(st, namespace \o Sep \o op, args, outputs)
        id == Len(st1.nodes)
        o == add_attributes(InsertNode(st1, id), id, SortedKeys(DOMAIN kw), kw,
                            aten)
    IN Outcome(o.st, Obj("Node", id, 0), o.raised)

new_node(st, namespace, op, outputs, args, kwargs) ==
    LET aten == IF str_aten \in DOMAIN kwargs
                THEN Truthy(kwargs[str_aten]) ELSE FALSE
        kw == Without(kwargs, {str_aten})
        st1 == Create(st, namespace \o Sep \o op, args, outputs)
        id == Len(st1.nodes)
        o == add_attributes(st1, id, SortedKeys(DOMAIN kw), kw, aten)
    IN Outcome(o.st, Obj("Node", id, 0), o.raised)

(* ------------------------------ graph_op ------------------------------- *)
\* _C._jit_pass_onnx_node_shape_type_inference(n, ...)
ShapeTypeInference(st, id) ==
    Logged(st, st.nodes, st.graph, st.block,
           Event(st, "inference", id, <<>>, <<>>, None))

\* the pass runs on n, whatever GLOBALS.onnx_shape_inference is
infer_always(st, id) == ShapeTypeInference(st, id)

\* if GLOBALS.onnx_shape_inference: the pass runs on n
infer(st, id) ==
    IF onnx_shape_inference THEN ShapeTypeInference(st, id) ELSE st

\* n.outputs()
NodeOutputs(st, id) == [j \in 1..st.nodes[id].nout |-> Value(id, j - 1)]

\* graph_op is entered at nesting depth d, and left for the depth d
Enter(st, d) ==
    LET in == St(st.nodes, st.graph, st.block, st.log, d)
    IN Logged(in, st.nodes, st.graph, st.block,
              Event(in, "graph_op", 0, <<>>, <<>>, None))
Leave(o, d) ==
    Outcome(St(o.st.nodes, o.st.graph, o.st.block, o.st.log, d), o.ret,
            o.raised)

\* the keyword arguments, unfiltered
keep_none(kwargs) == kwargs

\* kwargs = {k: v for k, v in kwargs.items() if v is not None}
drop_none(kwargs) ==
    Without(kwargs, {k \in DOMAIN kwargs : IsNone(kwargs[k])})

\* qualify with "aten" as the default namespace
qualify_aten(opname) ==
    IF HasSep(opname)
    THEN IF Len(Split(opname)) = 2
         THEN [raised |-> "", namespace |-> Split(opname)[1],
               op |-> Split(opname)[2]]
         ELSE [raised |-> "ValueError", namespace |-> <<>>, op |-> <<>>]
    ELSE [raised |-> "", namespace |-> str_aten, op |-> opname]

\* namespace, op = opname.split("::") if "::" in opname, else "onnx", opname;
\* the unpacking raises ValueError unless the split has two parts
qualify(opname) ==
    IF HasSep(opname)
    THEN IF Len(Split(opname)) = 2
         THEN [raised |-> "", namespace |-> Split(opname)[1],
               op |-> Split(opname)[2]]
         ELSE [raised |-> "ValueError", namespace |-> <<>>, op |-> <<>>]
    ELSE [raised |-> "", namespace |-> str_onnx, op |-> opname]

\* tuple(n.outputs()), whatever outputs is
returned_tuple(st, id, outputs) == Ret("tuple", NodeOutputs(st, id))

\* n.output() if outputs == 1, else tuple(n.outputs())
returned(st, id, outputs) ==
    IF outputs = 1 THEN Ret("single", <<Value(id, 0)>>)
    ELSE Ret("tuple", NodeOutputs(st, id))

RECURSIVE graph_op(_, _, _, _, _, _)
RECURSIVE const_args(_, _, _)

\* _const_if_tensor that wraps nothing
const_if_tensor_raw(st, arg, d) == Outcome(st, Ret("single", <<arg>>), "")

\* _const_if_tensor without the test for None
const_if_tensor_all(st, arg, d) ==
    IF arg.tag = "Value" THEN Outcome(st, Ret("single", <<arg>>), "")
    ELSE graph_op(st, str_Constant, <<>>, 1, (str_value_z :> arg), d + 1)

\* _const_if_tensor
const_if_tensor(st, arg, d) ==
    IF IsNone(arg) THEN Outcome(st, Ret("single", <<arg>>), "")
    ELSE IF arg.tag = "Value" THEN Outcome(st, Ret("single", <<arg>>), "")
    ELSE graph_op(st, str_Constant, <<>>, 1, (str_value_z :> arg), d + 1)

\* [_const_if_tensor(g, arg) for arg in raw_args]; ret.items is the list
const_args(st, raw_args, d) ==
    IF raw_args = <<>> THEN Outcome(st, Ret("list", <<>>), "")
    ELSE LET o == const_if_tensor(st, Head(raw_args), d) IN
         IF o.raised # "" THEN o
         ELSE LET r == const_args(o.st, Tail(raw_args), d) IN
              IF r.raised # "" THEN r
              ELSE Outcome(r.st, Ret("list", <<o.ret.items[1]>> \o r.ret.items),
                           "")

graph_op(st0, opname, raw_args, outputs, kwargs0, d) ==
    LET st == Enter(st0, d)
        kwargs == drop_none(kwargs0)
        a == const_args(st, raw_args, d)
        q == qualify(opname)
    IN
    IF a.raised # "" THEN Leave(a, st0.depth)
    ELSE IF q.raised # ""
    THEN Leave(Outcome(a.st, Ret("none", <<>>), q.raised), st0.depth)
    ELSE
      LET n == new_node(a.st, q.namespace, q.op, outputs, a.ret.items, kwargs)
      IN
      IF n.raised # ""
      THEN Leave(Outcome(n.st, Ret("none", <<>>), n.raised), st0.depth)
      ELSE LET st1 == infer(InsertNode(n.st, n.ret.a), n.ret.a)
           IN Leave(Outcome(st1, returned(st1, n.ret.a, outputs), ""),
                    st0.depth)

(* ------------------------------ aten_op -------------------------------- *)
aten_op(st, operator, args, overload_name, outputs, kwargs) ==
    IF {str_operator_s, str_overload_name_s} \cap DOMAIN kwargs # {}
    THEN Outcome(st, Ret("none", <<>>), "TypeError")
    ELSE graph_op(st, str_aten \o Sep \o str_ATen, args, outputs,
                  WithItem(WithItem(kwargs, str_operator_s, PyStr(operator)),
                           str_overload_name_s, PyStr(overload_name)),
                  0)

(* ------------------------------ block_op ------------------------------- *)
\* b.addNode(ns_opname, args): the block creates the node and appends it
AddNode(st, kind, args, nout) ==
    LET st1 == Create(st, kind, args, nout)
        id == Len(st1.nodes)
    IN Logged(st1, st1.nodes, st1.graph, Append(st1.block, id),
              Event(st1, "addNode", id, <<>>, <<>>, None))

\* nout: the number of outputs the native block gives the node
block_op(st, opname, args, kwargs0, nout) ==
    LET popped == ~HasSep(opname) /\ str_aten \in DOMAIN kwargs0
        aten == IF popped THEN Truthy(kwargs0[str_aten]) ELSE FALSE
        kwargs == IF popped THEN Without(kwargs0, {str_aten}) ELSE kwargs0
        ns_opname == IF HasSep(opname) THEN opname
                     ELSE (IF aten THEN str_aten ELSE str_onnx) \o Sep \o opname
        st1 == AddNode(st, ns_opname, args, nout)
        id == Len(st1.nodes)
        o == add_attributes(st1, id, SortedKeys(DOMAIN kwargs), kwargs, aten)
    IN IF o.raised # "" THEN Outcome(o.st, Ret("none", <<>>), o.raised)
       ELSE IF Len(NodeOutputs(o.st, id)) = 1
            THEN Outcome(o.st, Ret("single", <<Value(id, 0)>>), "")
            ELSE Outcome(o.st, Ret("tuple", NodeOutputs(o.st, id)), "")

(* ------------------------------ inputs --------------------------------- *)
KeyChars == {"d", "_", "i", "s", "t", "y", "\n"}
Strings(chars, n) == UNION { [1..k -> chars] : k \in 0..n }
Keys == Strings(KeyChars, MaxKeyLen)

Tensors == {Tensor(1, 0), Tensor(1, 1), Tensor(2, 1)}
AttrValues == {None, Obj("int", 1, 0), Obj("float", 1, 0), PyStr(<<"x">>),
               Obj("list", 1, 0)} \cup Tensors

str_Abs == <<"A","b","s">>
str_aten_add == <<"a","t","e","n",":",":","a","d","d">>
str_a_b_c == <<"a",":",":","b",":",":","c">>
OpNames == {str_Abs, str_aten_add, str_a_b_c}

str_dim == <<"d","i","m">>
str_axis_i == <<"a","x","i","s","_","i">>
str_dims_i == <<"d","i","m","s","_","i">>
str_alpha_f == <<"a","l","p","h","a","_","f">>
str_value_t == <<"v","a","l","u","e","_","t">>
True == Obj("bool", 1, 0)

\* keyword arguments: none; an int; a list, and a None under a malformed key;
\* a float, and an int under a malformed key; tensors for an aten node
Kwargs ==
    { <<>>,
      (str_axis_i :> Obj("int", 1, 0)),
      (str_dims_i :> Obj("list", 1, 0)) @@ (str_dim :> None),
      (str_alpha_f :> Obj("float", 1, 0)) @@ (str_dim :> Obj("int", 1, 0)),
      (str_aten :> True) @@ (str_value_t :> Tensor(1, 1))
        @@ (str_inplace :> True),
      (str_aten :> True) @@ (str_value_t :> Tensor(2, 1)) }

str_add == <<"a","d","d">>
str_out == <<"o","u","t">>
AtenKwargs ==
    { <<>>,
      (str_dim :> Obj("int", 1, 0)),
      (str_operator_s :> PyStr(str_out)) }

\* a graph input, an output of the graph's parameter node (node 0)
GraphInput == Value(0, 0)
ArgVals == {None, Tensor(1, 1), Tensor(2, 1), GraphInput}
RawArgs == UNION { [1..k -> ArgVals] : k \in 0..MaxArgs }
ValueArgs == UNION { [1..k -> {GraphInput}] : k \in 0..MaxArgs }

\* a call: the function and its arguments (overload: aten_op's overload_name;
\* key, value, aten: _add_attribute's; outputs of a block_op: the number of
\* outputs the native block gives the node)
Call(op, opname, args, outputs, kwargs, overload, key, value, aten) ==
    [op |-> op, opname |-> opname, args |-> args, outputs |-> outputs,
     kwargs |-> kwargs, overload |-> overload, key |-> key, value |-> value,
     aten |-> aten]

GraphOpCalls ==
    { Call("graph_op", opname, raw_args, outputs, kwargs, <<>>, <<>>, None,
           FALSE) :
        opname \in OpNames, raw_args \in RawArgs, outputs \in 0..MaxOutputs,
        kwargs \in Kwargs }
AtenOpCalls ==
    { Call("aten_op", str_add, args, 1, kwargs, overload_name, <<>>, None,
           FALSE) :
        args \in RawArgs, kwargs \in AtenKwargs,
        overload_name \in {<<>>, str_out} }
BlockOpCalls ==
    { Call("block_op", opname, args, nout, kwargs, <<>>, <<>>, None, FALSE) :
        opname \in OpNames, args \in ValueArgs, nout \in 1..MaxOutputs,
        kwargs \in Kwargs }
AddAttributeCalls ==
    { Call("_add_attribute", <<>>, <<>>, 1, <<>>, <<>>, key, value, aten) :
        key \in Keys, value \in AttrValues, aten \in BOOLEAN }

Pending == [tag |-> "pending", items |-> <<>>, raised |-> ""]

(* ------------------------------ state ---------------------------------- *)
\* a node of kind onnx::Abs over the graph input, as an earlier call left it
PreNode == [kind |-> str_onnx \o Sep \o str_Abs, inputs |-> <<GraphInput>>,
            nout |-> 1, attrs |-> <<>>]

\* the graph before the call holds that node; the block is empty
InitGraph ==
    /\ nodes = <<PreNode>>
    /\ graph = <<1>>
    /\ block = <<>>
    /\ log = <<>>
    /\ result = Pending
    /\ onnx_shape_inference \in BOOLEAN
    /\ operator_export_type \in {"ONNX", "ONNX_ATEN_FALLBACK"}
    /\ CAFFE2_ATEN_FALLBACK \in BOOLEAN

Init == InitGraph /\ call \in GraphOpCalls \cup AtenOpCalls \cup BlockOpCalls

\* _add_attribute is called on a node that g.create has made
InitAttr ==
    /\ nodes = <<PreNode>>
    /\ graph = <<>>
    /\ block = <<>>
    /\ log = <<>>
    /\ result = Pending
    /\ onnx_shape_inference = FALSE
    /\ operator_export_type \in {"ONNX", "ONNX_ATEN_FALLBACK"}
    /\ CAFFE2_ATEN_FALLBACK \in BOOLEAN
    /\ call \in AddAttributeCalls

Globals == <<onnx_shape_inference, operator_export_type, CAFFE2_ATEN_FALLBACK>>

\* the state the call runs on
Here == St(nodes, graph, block, <<>>, 0)

\* the call ran to the outcome o
Ran(o) ==
    /\ nodes' = o.st.nodes
    /\ graph' = o.st.graph
    /\ block' = o.st.block
    /\ log' = o.st.log
    /\ result' = [tag |-> o.ret.tag, items |-> o.ret.items, raised |-> o.raised]
    /\ UNCHANGED <<call, Globals>>

GraphOpCall ==
    /\ result = Pending
    /\ call.op = "graph_op"
    /\ Ran(graph_op(Here, call.opname, call.args, call.outputs, call.kwargs, 0))

AtenOpCall ==
    /\ result = Pending
    /\ call.op = "aten_op"
    /\ Ran(aten_op(Here, call.opname, call.args, call.overload, call.outputs,
                   call.kwargs))

BlockOpCall ==
    /\ result = Pending
    /\ call.op = "block_op"
    /\ Ran(block_op(Here, call.opname, call.args, call.kwargs, call.outputs))

AddAttributeCall ==
    /\ result = Pending
    /\ call.op = "_add_attribute"
    /\ LET o == add_attribute(Here, 1, call.key, call.value, call.aten)
       IN Ran(Outcome(o.st, Ret("none", <<>>), o.raised))

Next == GraphOpCall \/ AtenOpCall \/ BlockOpCall
Spec == Init /\ [][Next]_vars

NextAttr == AddAttributeCall
SpecAttr == InitAttr /\ [][NextAttr]_vars

(* ------------------------------ properties ----------------------------- *)
Done == result # Pending
Succeeded == Done /\ result.raised = ""

IsAttr(e) == e.ev = "attr"
IsCreate(e) == e.ev = "create"
IsTopCreate(e) == e.ev = "create" /\ e.depth = 0
IsEnter(e) == e.ev = "graph_op"
AttrLog == SelectSeq(log, IsAttr)

\* the nodes that were there before the call, and the ones it put in the graph
Pre == Len(nodes) - Len(SelectSeq(log, IsCreate))
NewGraph == SubSeq(graph, Pre + 1, Len(graph))
InGraph(id) == \E j \in 1..Len(graph) : graph[j] = id

\* the node the call was asked for, once it is created
HasRequested == Len(SelectSeq(log, IsTopCreate)) = 1
Requested == SelectSeq(log, IsTopCreate)[1].node

\* the positional arguments that are neither None nor graph values
IsWrappable(x) == x.tag # "None" /\ x.tag # "Value"
Wrappable == SelectSeq(call.args, IsWrappable)

str_value == <<"v","a","l","u","e">>
\* node id is the node of graph_op(g, "Constant", value_z=arg), in the graph
IsConstantOf(id, arg) ==
    /\ id \in 1..Len(nodes)
    /\ nodes[id].kind = str_onnx \o Sep \o str_Constant
    /\ nodes[id].inputs = <<>>
    /\ nodes[id].nout = 1
    /\ Len(nodes[id].attrs) = 1
    /\ nodes[id].attrs[1].setter = <<"z", "_">>
    /\ nodes[id].attrs[1].name = str_value
    /\ nodes[id].attrs[1].value = arg
    /\ InGraph(id)
ConstantNodes ==
    { id \in (Pre + 1)..Len(nodes) :
        nodes[id].kind = str_onnx \o Sep \o str_Constant }

(* ---- C1 ---- *)
TypedCodes == {"i", "f", "s", "t", "z"}
NameOf(key) == SubSeq(key, 1, Len(key) - 2)
\* key is <name>_<k>, k one of i, f, s, t, z and <name> a non-empty name
\* on one line
IsTyped(key) ==
    /\ Len(key) >= 3
    /\ key[Len(key) - 1] = "_"
    /\ key[Len(key)] \in TypedCodes
    /\ \A j \in 1..Len(NameOf(key)) : key[j] # "\n"
IsListValued(v) == v.tag = "list"
\* exactly one setter ran: k_ or, for a list, ks_, on (name, value)
RoutedBySuffix ==
    /\ result.raised = ""
    /\ Len(AttrLog) = 1
    /\ AttrLog[1].node = 1
    /\ AttrLog[1].setter =
         <<call.key[Len(call.key)]>>
           \o (IF IsListValued(call.value) THEN <<"s">> ELSE <<>>) \o <<"_">>
    /\ AttrLog[1].name = NameOf(call.key)
    /\ AttrLog[1].value = call.value

\* C1 as stated: for every key <name>_<k> with k in {i, f, s, t, z} and every
\* value, _add_attribute invokes exactly one setter, k_ for a value that is
\* not a list and ks_ for a list, with (<name>, value).
C1_EveryValueRouted ==
    (Done /\ call.op = "_add_attribute" /\ IsTyped(call.key)) => RoutedBySuffix

\* C1 as amended: the same, unless the node is an aten node under the Caffe2
\* ATen fallback and the value is a tensor.
C1_RoutedBySuffix ==
    (/\ Done
     /\ call.op = "_add_attribute"
     /\ IsTyped(call.key)
     /\ ~(call.aten /\ is_caffe2_aten_fallback /\ call.value.tag = "tensor"))
    => RoutedBySuffix

C1_Witness ==
    /\ Done
    /\ call.op = "_add_attribute"
    /\ call.key = <<"d", "_", "i">>
    /\ IsListValued(call.value)
    /\ call.aten /\ is_caffe2_aten_fallback
    /\ Len(AttrLog) = 1
    /\ AttrLog[1].setter = <<"i", "s", "_">>

(* ---- C2 ---- *)
\* key is a non-empty name, "_", and one of i, f, s, t, g, z, ty
Recognized(key) ==
    \/ /\ Len(key) >= 3
       /\ key[Len(key) - 1] = "_"
       /\ key[Len(key)] \in {"i", "f", "s", "t", "g", "z"}
    \/ /\ Len(key) >= 4
       /\ key[Len(key) - 2] = "_"
       /\ key[Len(key) - 1] = "t"
       /\ key[Len(key)] = "y"

\* C2: for every key without a recognized type suffix, _add_attribute raises
\* ValueError and invokes no setter, whatever the value.
C2_MalformedKeyRaises ==
    (Done /\ call.op = "_add_attribute" /\ ~Recognized(call.key))
    => (result.raised = "ValueError" /\ Len(AttrLog) = 0)

(* ---- C3 ---- *)
NoneKeys(kwargs) == {k \in DOMAIN kwargs : IsNone(kwargs[k])}

\* C3: a graph_op call leaves the nodes, the graph, the native calls and the
\* result that the same call without its None-valued keywords leaves: no
\* setter runs for them, and a malformed key among them raises nothing.
C3_NoneDropped ==
    [][(call.op = "graph_op" /\ result = Pending /\ result' # Pending) =>
        LET o == graph_op(Here, call.opname, call.args, call.outputs,
                          Without(call.kwargs, NoneKeys(call.kwargs)), 0)
        IN /\ nodes' = o.st.nodes
           /\ graph' = o.st.graph
           /\ log' = o.st.log
           /\ result'.raised = o.raised
           /\ result'.tag = o.ret.tag
           /\ result'.items = o.ret.items]_vars

C3_Witness ==
    /\ Succeeded
    /\ call.op = "graph_op"
    /\ \E k \in NoneKeys(call.kwargs) : ~ATTR_PATTERN(k).m
    /\ Len(AttrLog) = 1
    /\ AttrLog[1].name = <<"d", "i", "m", "s">>

(* ---- C4 ---- *)
RequestedInputs == nodes[Requested].inputs
Attached(i) == RequestedInputs[i] = call.args[i]
Wrapped(i) ==
    /\ RequestedInputs[i].tag = "Value"
    /\ RequestedInputs[i].b = 0
    /\ IsConstantOf(RequestedInputs[i].a, call.args[i])
    /\ \A j \in 1..Len(call.args) :
          j # i => RequestedInputs[j] # RequestedInputs[i]

\* C4 as stated: every positional argument that is not a graph value is
\* wrapped in a Constant node whose output is the input at its position;
\* graph values are attached unchanged, and no other Constant node is made.
C4_NonValuesWrapped ==
    (Succeeded /\ call.op = "graph_op") =>
        /\ Len(RequestedInputs) = Len(call.args)
        /\ \A i \in 1..Len(call.args) :
              IF call.args[i].tag = "Value" THEN Attached(i) ELSE Wrapped(i)
        /\ Cardinality(ConstantNodes) =
             Cardinality({i \in 1..Len(call.args) : call.args[i].tag # "Value"})

\* C4 as amended: every positional argument that is neither None nor a graph
\* value is wrapped; None and graph values are attached unchanged.
C4_TensorsWrapped ==
    (Succeeded /\ call.op = "graph_op") =>
        /\ Len(RequestedInputs) = Len(call.args)
        /\ \A i \in 1..Len(call.args) :
              IF IsWrappable(call.args[i]) THEN Wrapped(i) ELSE Attached(i)
        /\ Cardinality(ConstantNodes) = Len(Wrappable)

C4_Witness ==
    /\ Succeeded
    /\ call.op = "graph_op"
    /\ Len(call.args) = 2
    /\ IsNone(call.args[1])
    /\ call.args[2] = Tensor(2, 1)
    /\ IsNone(RequestedInputs[1])
    /\ RequestedInputs[2] = Value(Requested - 1, 0)

(* ---- C5 ---- *)
\* C5: graph_op makes the node with `outputs` outputs; it returns the node's
\* one output when outputs = 1, else the tuple of the node's outputs in
\* positional order, of length outputs.
C5_Outputs ==
    (Succeeded /\ call.op = "graph_op") =>
        /\ nodes[Requested].nout = call.outputs
        /\ IF call.outputs = 1
           THEN result.tag = "single" /\ result.items = <<Value(Requested, 0)>>
           ELSE /\ result.tag = "tuple"
                /\ Len(result.items) = call.outputs
                /\ \A j \in 1..call.outputs :
                      result.items[j] = Value(Requested, j - 1)

C5_Witness ==
    /\ Succeeded
    /\ call.op = "graph_op"
    /\ call.outputs = 2
    /\ result.tag = "tuple"
    /\ Len(result.items) = 2

(* ---- C6 ---- *)
\* opname is <namespace>::<op>: one "::", none in the namespace or the op
Qualified(s) ==
    \E j \in 1..(Len(s) - 1) :
        /\ s[j] = ":" /\ s[j + 1] = ":"
        /\ ~HasSep(SubSeq(s, 1, j - 1))
        /\ ~HasSep(SubSeq(s, j + 2, Len(s)))
str_operator == <<"o","p","e","r","a","t","o","r">>
str_overload_name == <<"o","v","e","r","l","o","a","d","_","n","a","m","e">>
HasStringAttr(id, name, s) ==
    \E j \in 1..Len(nodes[id].attrs) :
        /\ nodes[id].attrs[j].setter = <<"s", "_">>
        /\ nodes[id].attrs[j].name = name
        /\ nodes[id].attrs[j].value.tag = "str"
        /\ nodes[id].attrs[j].value.a = s

\* C6: the node graph_op creates has the kind onnx::<opname> for an opname
\* without "::" and the kind <opname> for an opname <namespace>::<op>; the
\* node aten_op creates has the kind aten::ATen and, once the call returns,
\* the string attributes operator and overload_name set on it.
C6_Kind ==
    /\ (Done /\ call.op = "graph_op" /\ HasRequested) =>
          /\ ~HasSep(call.opname) =>
                nodes[Requested].kind = str_onnx \o Sep \o call.opname
          /\ Qualified(call.opname) => nodes[Requested].kind = call.opname
    /\ (Done /\ call.op = "aten_op" /\ HasRequested) =>
          nodes[Requested].kind = str_aten \o Sep \o str_ATen
    /\ (Succeeded /\ call.op = "aten_op") =>
          /\ HasRequested
          /\ HasStringAttr(Requested, str_operator, call.opname)
          /\ HasStringAttr(Requested, str_overload_name, call.overload)

C6_Witness ==
    /\ Succeeded
    /\ call.op = "graph_op"
    /\ call.opname = str_Abs
    /\ nodes[Requested].kind = <<"o","n","n","x",":",":","A","b","s">>

(* ---- C7 ---- *)
IndexOf(ev, id) == CHOOSE j \in 1..Len(log) : log[j].ev = ev /\ log[j].node = id

\* C7: a graph_op call that returns puts k + 1 nodes into the graph, k the
\* number of positional arguments that are neither None nor graph values:
\* the k Constant nodes in the order of their arguments, each before the
\* requested node is created, then the requested node; graph_op is entered
\* k + 1 times and never nested more than one level deep.
C7_ConstantsThenNode ==
    (Succeeded /\ call.op = "graph_op") =>
        /\ SubSeq(graph, 1, Pre) = [j \in 1..Pre |-> j]
        /\ Len(NewGraph) = Len(Wrappable) + 1
        /\ \A j \in 1..Len(Wrappable) :
              /\ IsConstantOf(NewGraph[j], Wrappable[j])
              /\ IndexOf("insertNode", NewGraph[j]) < IndexOf("create", Requested)
        /\ NewGraph[Len(NewGraph)] = Requested
        /\ Len(SelectSeq(log, IsEnter)) = Len(Wrappable) + 1
        /\ \A j \in 1..Len(log) : log[j].depth <= 1

C7_Witness ==
    /\ Succeeded
    /\ call.op = "graph_op"
    /\ Pre = 1
    /\ call.args = <<Tensor(2, 1), Tensor(1, 1)>>
    /\ Len(graph) = 4
    /\ graph[4] = Requested

(* ---- C8 ---- *)
\* C8: with GLOBALS.onnx_shape_inference the inference pass runs exactly
\* once on every node graph_op inserts, nested Constant nodes included,
\* right after the node is inserted, all its attributes set, and before the
\* call returns; without it the pass never runs.
C8_InferenceFollowsInsertion ==
    (Done /\ call.op \in {"graph_op", "aten_op"}) =>
        \A j \in 1..Len(log) :
            /\ log[j].ev = "insertNode" =>
                  /\ onnx_shape_inference =>
                        /\ j < Len(log)
                        /\ log[j + 1].ev = "inference"
                        /\ log[j + 1].node = log[j].node
                        /\ Cardinality({i \in 1..Len(log) :
                               /\ log[i].ev = "inference"
                               /\ log[i].node = log[j].node}) = 1
                  /\ \A i \in 1..Len(log) :
                        (log[i].ev = "attr" /\ log[i].node = log[j].node)
                        => i < j
                  /\ Len(SelectSeq(AttrLog,
                                   LAMBDA e : e.node = log[j].node))
                       = Len(nodes[log[j].node].attrs)
            /\ log[j].ev = "inference" =>
                  /\ onnx_shape_inference
                  /\ j > 1
                  /\ log[j - 1].ev = "insertNode"
                  /\ log[j - 1].node = log[j].node

C8_Witness ==
    /\ Succeeded
    /\ call.op = "graph_op"
    /\ onnx_shape_inference
    /\ Len(Wrappable) = 1
    /\ Len(AttrLog) = 2
    /\ log[Len(log)].ev = "inference"
    /\ log[Len(log)].node = Requested

(* ---- C9 ---- *)
\* a keyword that reaches _add_attribute under a key the pattern rejects
MalformedKeys(kwargs) ==
    {k \in DOMAIN kwargs : k # str_inplace /\ ~ATTR_PATTERN(k).m}

\* C9: when graph_op raises ValueError over a malformed key of a keyword that
\* is not None, the requested node is not in the graph and the inference
\* pass has not run on it, while the Constant nodes of the positional
\* arguments are in the graph; when block_op raises it over a malformed key,
\* the node is in the block.
C9_FailureLeaves ==
    /\ (/\ Done
        /\ call.op = "graph_op"
        /\ result.raised = "ValueError"
        /\ HasRequested
        /\ MalformedKeys(Without(call.kwargs,
                                 NoneKeys(call.kwargs) \cup {str_aten})) # {})
       => /\ ~InGraph(Requested)
          /\ \A j \in 1..Len(log) :
                ~(log[j].ev = "inference" /\ log[j].node = Requested)
          /\ SubSeq(graph, 1, Pre) = [j \in 1..Pre |-> j]
          /\ Len(NewGraph) = Len(Wrappable)
          /\ \A j \in 1..Len(Wrappable) :
                IsConstantOf(NewGraph[j], Wrappable[j])
    /\ (/\ Done
        /\ call.op = "block_op"
        /\ result.raised = "ValueError"
        /\ MalformedKeys(call.kwargs) # {})
       => /\ HasRequested
          /\ \E j \in 1..Len(block) : block[j] = Requested

C9_Witness ==
    /\ Done
    /\ call.op = "graph_op"
    /\ result.raised = "ValueError"
    /\ HasRequested
    /\ str_dim \in DOMAIN call.kwargs
    /\ Len(Wrappable) = 2
    /\ Len(NewGraph) = 2
    /\ ~InGraph(Requested)

====
